---- MODULE Spec2Model ----
(***************************************************************************)
(* Household income imputation of eqasim:                                  *)
(*   src/data/income/municipality_attributes.py  (income table)            *)
(*   src/synthesis/population/income.py          (classification, sampler) *)
(*                                                                         *)
(* Money is kept in exact integer arithmetic.  A per-consumption-unit      *)
(* monthly income x is stored as x * 12 * 10 * FracDen, a household income *)
(* y as y * 12 * 10 * FracDen * 2, so that q/12, the factor 1.2, the       *)
(* fractional draw and consumption units in halves need no division.       *)
(***************************************************************************)
EXTENDS Integers, Sequences, FiniteSets, TLC

\* ------------------------------------------------------------------ bounds
MaxPersons == 3      \* persons of a population of the classification inputs
MaxHouseholds == 2   \* households of a population of the sampling inputs
MaxSeed == 1         \* master seeds 0..MaxSeed
MaxRetries == 1      \* re-executions of one municipality task

\* ------------------------------------------------------- program constants
NumStrata == 10              \* random.randint(10, ...)
SeedRange == 10000           \* random.randint(10000, ...)
FactorNum == 12              \* MAXIMUM_INCOME_FACTOR = 1.2 = FactorNum / FactorDen
FactorDen == 10

\* ------------------------------------------------------------ input domains
Communes == {"c1", "c2"}
Sexes == {"male", "female"}
Ages == {17, 25, 60}
Profiles == {"zero", "flat", "rising"}
Absent == "absent"
FracDen == 4                 \* resolution of a fractional draw: k / FracDen

NoIncome == -1
NoResult == [ok |-> FALSE, ran |-> FALSE]
NoTable == [returned |-> FALSE, table |-> <<>>]

\* ------------------------------------------------------------------ helpers
RECURSIVE SeqSum(_)
SeqSum(s) == IF s = <<>> THEN 0 ELSE Head(s) + SeqSum(Tail(s))

RECURSIVE SeqMax(_)
SeqMax(s) == IF Len(s) = 1 THEN s[1]
             ELSE LET m == SeqMax(Tail(s)) IN IF s[1] >= m THEN s[1] ELSE m

\* ---------------------------------------------------------------- generator
(* np.random.RandomState: a seeded generator of words.  MT19937 is replaced *)
(* by a small multiplicative generator with the same interface: a state     *)
(* made from the seed, and a step that yields a word and the next state.    *)
RandomState(seed) == 1 + ((seed + 21) % 65520)

NextWord(state) == (17364 * state) % 65521

RECURSIVE Mask(_)
Mask(n) == IF n = 0 THEN 0 ELSE 2 * Mask(n \div 2) + 1

(* randint(high): masked rejection sampling; words outside 0..high-1 are    *)
(* discarded and the generator keeps the state after the accepted word.     *)
RECURSIVE randint(_, _)
randint(state, high) ==
    LET w == NextWord(state)
        v == w % (Mask(high - 1) + 1)
    IN  IF v < high THEN [value |-> v, state |-> w] ELSE randint(w, high)

(* random_sample(): one fraction in [0,1), built from two words; the value  *)
(* is the numerator over FracDen.                                           *)
random_sample(state) ==
    LET a == NextWord(state)
        b == NextWord(a)
    IN  [value |-> 2 * (a % 2) + (b % 2), state |-> b]

\* ------------------------------------------------------------- income table
(* FILOSOFI_ATTRIBUTES, flattened to its sheets in registry order.          *)
FILOSOFI_ATTRIBUTES ==
    << [attribute |-> "tax_referent_age", modality |-> "0_29"],
       [attribute |-> "tax_referent_age", modality |-> "30_39"],
       [attribute |-> "tax_referent_age", modality |-> "40_49"],
       [attribute |-> "tax_referent_age", modality |-> "50_59"],
       [attribute |-> "tax_referent_age", modality |-> "60_74"],
       [attribute |-> "tax_referent_age", modality |-> "75_or_more"],
       [attribute |-> "household_size", modality |-> "1_pers"],
       [attribute |-> "household_size", modality |-> "2_pers"],
       [attribute |-> "household_size", modality |-> "3_pers"],
       [attribute |-> "household_size", modality |-> "4_pers"],
       [attribute |-> "household_size", modality |-> "5_pers_or_more"],
       [attribute |-> "housing_tenure", modality |-> "Owner"],
       [attribute |-> "housing_tenure", modality |-> "Tenant"],
       [attribute |-> "household_type", modality |-> "Single_man"],
       [attribute |-> "household_type", modality |-> "Single_wom"],
       [attribute |-> "household_type", modality |-> "Couple_without_child"],
       [attribute |-> "household_type", modality |-> "Couple_with_child"],
       [attribute |-> "household_type", modality |-> "Single_parent"],
       [attribute |-> "household_type", modality |-> "complex_hh"],
       [attribute |-> "income_source", modality |-> "Salary"],
       [attribute |-> "income_source", modality |-> "Unemployment"],
       [attribute |-> "income_source", modality |-> "Independent"],
       [attribute |-> "income_source", modality |-> "Pension"],
       [attribute |-> "income_source", modality |-> "Property"],
       [attribute |-> "income_source", modality |-> "None"] >>

CommuneOrder == <<"c1", "c2">>

(* The spreadsheet: the nine decile columns of commune c in sheet k.  A     *)
(* commune has one decile profile, scaled by the sheet's position, so that  *)
(* the rows of two sheets of one commune differ (the "zero" profile apart). *)
BaseDeciles(profile) ==
    CASE profile = "zero"   -> <<0, 0, 0, 0, 0, 0, 0, 0, 0>>
      [] profile = "flat"   -> <<1200, 1200, 1200, 1200, 1200, 1200, 1200, 1200, 1200>>
      [] profile = "rising" -> <<800, 1000, 1200, 1400, 1600, 1800, 2100, 2500, 3200>>

SheetDeciles(profile, k) == [i \in 1..9 |-> k * BaseDeciles(profile)[i]]

(* excel_df[sheet], lines 90-94: one row per commune of the sheet.          *)
SheetData(excel, k) ==
    LET present == SelectSeq(CommuneOrder, LAMBDA c : excel[c] # Absent)
    IN  [j \in 1..Len(present) |->
            [commune_id |-> present[j],
             q |-> SheetDeciles(excel[present[j]], k),
             reference_median |-> SheetDeciles(excel[present[j]], k)[5],
             modality |-> FILOSOFI_ATTRIBUTES[k].modality,
             attribute |-> FILOSOFI_ATTRIBUTES[k].attribute]]

(* df = pd.concat([df, data]) over every attribute and modality.            *)
RECURSIVE ConcatSheets(_, _)
ConcatSheets(excel, k) ==
    IF k = 0 THEN <<>> ELSE ConcatSheets(excel, k - 1) \o SheetData(excel, k)

municipality_attributes(excel) == ConcatSheets(excel, Len(FILOSOFI_ATTRIBUTES))

(* The two assertions that end municipality_attributes.execute.             *)
Validation(df) ==
    /\ Cardinality({FILOSOFI_ATTRIBUTES[k].attribute : k \in 1..Len(FILOSOFI_ATTRIBUTES)})
          = Cardinality({df[i].attribute : i \in 1..Len(df)})
    /\ Len(FILOSOFI_ATTRIBUTES) = Cardinality({df[i].modality : i \in 1..Len(df)})

\* ------------------------------------------------------------------ sampler
(* IncomeRows falling back on the first row of the table.                   *)
IncomeRows_fallback(df_income, commune_id) ==
    LET rows == SelectSeq(df_income, LAMBDA r : r.commune_id = commune_id)
    IN  IF rows = <<>> /\ df_income # <<>> THEN <<df_income[1]>> ELSE rows

(* df_income[df_income["commune_id"] == commune_id]                          *)
IncomeRows(df_income, commune_id) ==
    SelectSeq(df_income, LAMBDA r : r.commune_id = commune_id)

(* Lines 36-44: the eleven boundary points, each times 12 * FactorDen.       *)
(* .iloc[0] takes the first row of the commune; the caller checks there is   *)
(* one.                                                                      *)
BoundaryPoints(q) ==
    LET centiles == [i \in 1..9 |-> FactorDen * q[i]]
    IN  <<0>> \o centiles \o <<FactorNum * (SeqMax(centiles) \div FactorDen)>>

(* Centiles without the "/ 12": annual cutoffs taken as monthly ones.       *)
Centiles_annual(df_income, commune_id) ==
    LET q == IncomeRows(df_income, commune_id)[1].q
    IN  BoundaryPoints([i \in 1..9 |-> 12 * q[i]])

Centiles(df_income, commune_id) ==
    BoundaryPoints(IncomeRows(df_income, commune_id)[1].q)

(* randint(high, size = n): n draws, one after the other.  The log keeps   *)
(* what each draw was for and the generator state before and after it.      *)
RECURSIVE randint_size(_, _, _, _)
randint_size(state, high, n, log) ==
    IF n = 0 THEN [values |-> <<>>, state |-> state, log |-> log]
    ELSE LET d == randint(state, high)
             rest == randint_size(d.state, high, n - 1,
                        Append(log, [kind |-> "randint", row |-> Len(log) + 1,
                                     before |-> state, after |-> d.state]))
         IN  [values |-> <<d.value>> \o rest.values,
              state |-> rest.state, log |-> rest.log]

(* random_sample(size = n)                                                  *)
RECURSIVE random_sample_size(_, _, _, _)
random_sample_size(state, n, done, log) ==
    IF done = n THEN [values |-> <<>>, state |-> state, log |-> log]
    ELSE LET d == random_sample(state)
             rest == random_sample_size(d.state, n, done + 1,
                        Append(log, [kind |-> "random_sample", row |-> done + 1,
                                     before |-> state, after |-> d.state]))
         IN  [values |-> <<d.value>> \o rest.values,
              state |-> rest.state, log |-> rest.log]

(* Draws taking each row's index and fraction together, row after row.      *)
RECURSIVE Draws_interleaved_from(_, _, _, _)
Draws_interleaved_from(state, n, done, log) ==
    IF done = n THEN [indices |-> <<>>, fractions |-> <<>>, log |-> log]
    ELSE LET i == randint(state, NumStrata)
             x == random_sample(i.state)
             rest == Draws_interleaved_from(x.state, n, done + 1,
                        log \o << [kind |-> "randint", row |-> done + 1,
                                   before |-> state, after |-> i.state],
                                  [kind |-> "random_sample", row |-> done + 1,
                                   before |-> i.state, after |-> x.state] >>)
         IN  [indices |-> <<i.value>> \o rest.indices,
              fractions |-> <<x.value>> \o rest.fractions, log |-> rest.log]

Draws_interleaved(random, n) == Draws_interleaved_from(random, n, 0, <<>>)

(* Lines 46 and 49: the stratum indices of all n rows, then their fractions. *)
Draws(random, n) ==
    LET indices == randint_size(random, NumStrata, n, <<>>)
        fractions == random_sample_size(indices.state, n, 0, indices.log)
    IN  [indices |-> indices.values, fractions |-> fractions.values,
         log |-> fractions.log]

(* Selected restricted to the rows without an income yet.                   *)
Selected_pending(df_households, commune_id) ==
    [i \in 1..Len(df_households) |->
        /\ df_households[i].commune_id = commune_id
        /\ df_households[i].household_income = NoIncome]

(* Line 33: f = df_households["commune_id"] == commune_id                   *)
Selected(df_households, commune_id) ==
    [i \in 1..Len(df_households) |-> df_households[i].commune_id = commune_id]

(* _sample_income(context, (commune_id, random_seed)).  The result carries  *)
(* the mask f, the incomes (times 12 * FactorDen * FracDen) and,            *)
(* for the record, the seed, the draws and the log of generator use.        *)
_sample_income(commune_id, random_seed, df_households, df_income) ==
    LET random == RandomState(random_seed)
        f == Selected(df_households, commune_id)
        n == Len(SelectSeq(f, LAMBDA b : b))         \* len(df_selected)
    IN  IF IncomeRows(df_income, commune_id) = <<>>
        THEN [ok |-> FALSE, ran |-> TRUE]       \* .iloc[0] raises IndexError
        ELSE
        LET centiles == Centiles(df_income, commune_id)
            d == Draws(random, n)
            lower_bounds == [j \in 1..n |-> centiles[d.indices[j] + 1]]
            upper_bounds == [j \in 1..n |-> centiles[d.indices[j] + 2]]
            incomes == [j \in 1..n |->
                FracDen * lower_bounds[j]
                  + d.fractions[j] * (upper_bounds[j] - lower_bounds[j])]
        IN  [ok |-> TRUE, ran |-> TRUE, f |-> f, incomes |-> incomes,
             seed |-> random_seed, centiles |-> centiles,
             indices |-> d.indices, fractions |-> d.fractions, log |-> d.log]

\* --------------------------------------------------------------- households
Rows(table, household_id) ==
    SelectSeq(table, LAMBDA r : r.household_id = household_id)

GroupKeys(table) == {table[i].household_id : i \in 1..Len(table)}

(* drop_duplicates("household_id"): the first row of every household, in    *)
(* the order of the table.                                                  *)
RECURSIVE drop_duplicates(_, _)
drop_duplicates(table, seen) ==
    IF table = <<>> THEN <<>>
    ELSE IF Head(table).household_id \in seen
         THEN drop_duplicates(Tail(table), seen)
         ELSE <<Head(table)>>
                \o drop_duplicates(Tail(table), seen \cup {Head(table).household_id})

(* pd.merge(left, right) on household_id, inner: the rows of left, in       *)
(* order, each with every row of right of the same household_id.            *)
RECURSIVE merge(_, _)
merge(left, right) ==
    IF left = <<>> THEN <<>>
    ELSE LET matches == Rows(right, Head(left).household_id)
         IN  [j \in 1..Len(matches) |-> Head(left) @@ matches[j]]
               \o merge(Tail(left), right)

(* Lines 77-79.                                                             *)
SizeBucket(x) ==
    IF x < 5 THEN <<"0_pers", "1_pers", "2_pers", "3_pers", "4_pers">>[x + 1]
    ELSE "5_pers_or_more"

(* Lines 73-79: persons counted per household, then bucketed.               *)
df_households_size(df_population) ==
    LET keys == drop_duplicates(df_population, {})
    IN  [j \in 1..Len(keys) |->
            [household_id |-> keys[j].household_id,
             household_size |->
                SizeBucket(Len(Rows(df_population, keys[j].household_id)))]]

(* Lines 62-80.                                                             *)
HouseholdTable(df_population, df_homes) ==
    LET first == drop_duplicates(df_population, {})
        units == [j \in 1..Len(first) |->
                    [household_id |-> first[j].household_id,
                     consumption_units |-> first[j].consumption_units]]
    IN  merge(merge(units, df_homes), df_households_size(df_population))

\* ----------------------------------------------------------- household type
(* Lines 85-87: household_size and sex of the first person of a household.  *)
df_households_info(df_population) ==
    [h \in GroupKeys(df_population) |->
        [household_size |-> Rows(df_population, h)[1].household_size,
         sex |-> Rows(df_population, h)[1].sex]]

(* Lines 88-91.                                                             *)
df_households_single_man(df_population) ==
    LET info == df_households_info(df_population)
    IN  {h \in DOMAIN info : info[h].household_size = 1 /\ info[h].sex = "male"}

(* Lines 92-95.                                                             *)
df_households_single_woman(df_population) ==
    LET info == df_households_info(df_population)
    IN  {h \in DOMAIN info : info[h].household_size = 1 /\ info[h].sex = "female"}

(* Lines 99-103: over the persons with couple == True only.                 *)
df_households_couple(df_population) ==
    LET in_couple == SelectSeq(df_population, LAMBDA p : p.couple)
    IN  [h \in GroupKeys(in_couple) |->
            [couple |-> Len(Rows(in_couple, h)),
             household_size |-> Rows(in_couple, h)[1].household_size]]

(* Lines 104-107.                                                           *)
df_households_couple_without_child(df_population) ==
    LET c == df_households_couple(df_population)
    IN  {h \in DOMAIN c : c[h].couple = 2 /\ c[h].household_size = 2}

(* Lines 111-116: child_count, for the households that have a child.        *)
df_households_child(df_population) ==
    LET children == SelectSeq(df_population, LAMBDA p : p.age < 25 /\ ~p.couple)
    IN  [h \in GroupKeys(children) |-> Len(Rows(children, h))]

(* Lines 117-122: the left merge leaves child_count missing for a household *)
(* without a child, and the query is then false.                            *)
df_households_couple_with_child(df_population) ==
    LET c == df_households_couple(df_population)
        child == df_households_child(df_population)
    IN  {h \in DOMAIN c :
            h \in DOMAIN child /\ c[h].household_size = child[h] + 2}

(* sort_values(["household_id", "age"], ascending = [True, False]), taken   *)
(* within one household: by age, oldest first, ties in the order met.       *)
RECURSIVE SortByAge(_)
SortByAge(rows) ==
    IF rows = <<>> THEN <<>>
    ELSE LET top == SeqMax([j \in 1..Len(rows) |-> rows[j].age])
             k == CHOOSE j \in 1..Len(rows) :
                    /\ rows[j].age = top
                    /\ \A i \in 1..(j - 1) : rows[i].age # top
         IN  <<rows[k]>>
               \o SortByAge([j \in 1..(Len(rows) - 1) |->
                                IF j < k THEN rows[j] ELSE rows[j + 1]])

(* Lines 125-127.                                                           *)
df_households_no_couple(df_population) ==
    SelectSeq(df_population, LAMBDA p : ~p.couple /\ p.household_size >= 2)

(* Lines 129-133.                                                           *)
df_households_no_couple_oldest(df_population) ==
    LET nc == df_households_no_couple(df_population)
    IN  [h \in GroupKeys(nc) |->
            [oldest_age |-> SortByAge(Rows(nc, h))[1].age,
             oldest_person_id |-> SortByAge(Rows(nc, h))[1].person_id]]

(* Lines 135-142.                                                           *)
df_households_no_couple_second_oldest(df_population) ==
    LET nc == df_households_no_couple(df_population)
        oldest == df_households_no_couple_oldest(df_population)
        others == SelectSeq(nc,
                    LAMBDA p : p.person_id # oldest[p.household_id].oldest_person_id)
    IN  [h \in GroupKeys(others) |-> SortByAge(Rows(others, h))[1].age]

(* Lines 144-150: a missing second_oldest_age makes the query false.        *)
df_households_single_parent(df_population) ==
    LET oldest == df_households_no_couple_oldest(df_population)
        second == df_households_no_couple_second_oldest(df_population)
    IN  {h \in DOMAIN oldest :
            /\ oldest[h].oldest_age >= 25
            /\ oldest[h].oldest_age < 60
            /\ h \in DOMAIN second
            /\ second[h] < 25}

(* Lines 153-214: the five left merges; a household without the label gets  *)
(* the empty string.                                                        *)
TypeColumns(df_population, h) ==
    << IF h \in df_households_single_man(df_population) THEN "Single_man" ELSE "",
       IF h \in df_households_single_woman(df_population) THEN "Single_woman" ELSE "",
       IF h \in df_households_couple_without_child(df_population)
          THEN "Couple_without_child" ELSE "",
       IF h \in df_households_couple_with_child(df_population)
          THEN "Couple_with_child" ELSE "",
       IF h \in df_households_single_parent(df_population) THEN "Single_parent" ELSE "" >>

(* Lines 215-226.                                                           *)
household_type(df_population, h) ==
    LET t == TypeColumns(df_population, h)
        x == t[1] \o t[2] \o t[3] \o t[4] \o t[5]
    IN  IF x = "" THEN "complex_hh" ELSE x

(* Lines 152-230 over the whole table.                                      *)
Classified(df_households, df_population) ==
    [j \in 1..Len(df_households) |->
        [household_type |-> household_type(df_population, df_households[j].household_id)]
          @@ df_households[j]]

\* ------------------------------------------------------------ orchestrator
(* unique without the removal of duplicates.                                *)
unique_keep_all(column, seen) == column

(* df_households["commune_id"].unique(): in the order of first appearance.  *)
RECURSIVE unique(_, _)
unique(column, seen) ==
    IF column = <<>> THEN <<>>
    ELSE IF Head(column) \in seen THEN unique(Tail(column), seen)
         ELSE <<Head(column)>> \o unique(Tail(column), seen \cup {Head(column)})

CommuneColumn(df_households) ==
    [j \in 1..Len(df_households) |-> df_households[j].commune_id]

(* The position of row i among the rows the mask f selects.                 *)
Rank(f, i) == Len(SelectSeq(SubSeq(f, 1, i), LAMBDA b : b))

(* loc_assign writing the incomes to the first rows still without one,      *)
(* whatever the mask.                                                       *)
loc_assign_by_arrival(df_households, f, incomes) ==
    [i \in 1..Len(df_households) |->
        LET free == Len(SelectSeq(SubSeq(df_households, 1, i),
                                  LAMBDA h : h.household_income = NoIncome))
        IN  IF df_households[i].household_income = NoIncome /\ free <= Len(incomes)
            THEN [df_households[i] EXCEPT
                    !.household_income = incomes[free] * df_households[i].consumption_units]
            ELSE df_households[i]]

(* Lines 242-244: df_households.loc[f, "household_income"] =                *)
(*                    incomes * df_households.loc[f, "consumption_units"]   *)
loc_assign(df_households, f, incomes) ==
    [i \in 1..Len(df_households) |->
        IF f[i]
        THEN [df_households[i] EXCEPT
                !.household_income = incomes[Rank(f, i)] * df_households[i].consumption_units]
        ELSE df_households[i]]

(* Line 247.                                                                *)
Cleanup(df_households) ==
    [i \in 1..Len(df_households) |->
        [household_id |-> df_households[i].household_id,
         household_income |-> df_households[i].household_income,
         consumption_units |-> df_households[i].consumption_units]]

\* -------------------------------------------------------------------- state
VARIABLES
    pc,             \* where execute is
    df_population,  \* stage synthesis.population.sampled (input)
    df_homes,       \* stage synthesis.population.spatial.home.zones (input)
    excel_df,       \* the spreadsheet behind the income stage (input)
    random_seed,    \* context.config("random_seed") (input)
    random,         \* the master generator of execute
    df_income,      \* the income table
    df_households,  \* the household table
    commune_ids,    \* the arguments of the tasks ...
    random_seeds,   \* ... zip(commune_ids, random_seeds)
    results,        \* what each task last returned
    runs,           \* how often each task was executed
    merged,         \* whether the loop body ran for the task's result
    written,        \* per row, how often household_income was assigned
    output          \* what execute returns

vars == << pc, df_population, df_homes, excel_df, random_seed, random, df_income,
           df_households, commune_ids, random_seeds, results, runs, merged,
           written, output >>

inputs == << df_population, df_homes, excel_df, random_seed >>

\* ------------------------------------------------------------------- inputs
(* The household of person i when the households have the given sizes.      *)
RECURSIVE HouseholdOf(_, _)
HouseholdOf(sizes, i) ==
    IF i <= Head(sizes) THEN 1 ELSE 1 + HouseholdOf(Tail(sizes), i - Head(sizes))

(* A population: persons 1..n, household by household.  household_size is   *)
(* the number of persons of the household, and consumption_units (in        *)
(* halves) grow with it: 1.0, 1.5, 2.0, ...                                 *)
Population(sizes, sex, age, couple) ==
    [i \in 1..SeqSum(sizes) |->
        [person_id |-> i,
         household_id |-> HouseholdOf(sizes, i),
         sex |-> sex[i],
         age |-> age[i],
         couple |-> couple[i],
         household_size |-> sizes[HouseholdOf(sizes, i)],
         consumption_units |-> 1 + sizes[HouseholdOf(sizes, i)]]]

Homes(home) == [h \in 1..Len(home) |-> [household_id |-> h, commune_id |-> home[h]]]

InitControl ==
    /\ pc = "start"
    /\ random = 0
    /\ df_income = <<>>
    /\ df_households = <<>>
    /\ commune_ids = <<>>
    /\ random_seeds = <<>>
    /\ results = <<>>
    /\ runs = <<>>
    /\ merged = <<>>
    /\ written = <<>>
    /\ output = NoTable

(* Inputs for the sampler: up to MaxHouseholds households of one or two     *)
(* persons, each in any commune; every commune with any decile profile or   *)
(* absent from the spreadsheet.                                             *)
Init ==
    /\ \E n \in 1..MaxHouseholds :
         \E sizes \in [1..n -> {1, 2}], home \in [1..n -> Communes] :
            /\ df_population =
                 Population(sizes, [i \in 1..SeqSum(sizes) |-> "female"],
                            [i \in 1..SeqSum(sizes) |-> 25],
                            [i \in 1..SeqSum(sizes) |-> FALSE])
            /\ df_homes = Homes(home)
    /\ excel_df \in [Communes -> Profiles \cup {Absent}]
    /\ random_seed \in 0..MaxSeed
    /\ InitControl

(* Inputs for the classifier: every population of up to MaxPersons persons, *)
(* all living in one commune.                                               *)
InitClassification ==
    /\ \E n \in 1..MaxPersons :
         \E sizes \in [1..n -> 1..MaxPersons] :
            /\ SeqSum(sizes) <= MaxPersons
            /\ \E sex \in [1..SeqSum(sizes) -> Sexes],
                  age \in [1..SeqSum(sizes) -> Ages],
                  couple \in [1..SeqSum(sizes) -> BOOLEAN] :
                  df_population = Population(sizes, sex, age, couple)
            /\ df_homes = Homes([h \in 1..n |-> "c1"])
    /\ excel_df = [c \in Communes |-> IF c = "c1" THEN "rising" ELSE Absent]
    /\ random_seed = 0
    /\ InitControl

\* ------------------------------------------------------------------ actions
(* Lines 56-60: the master generator, and the two stages.  The income stage *)
(* fails its own validation on a spreadsheet without any commune.           *)
LoadData ==
    /\ pc = "start"
    /\ random' = RandomState(random_seed)
    /\ IF Validation(municipality_attributes(excel_df))
       THEN /\ df_income' = municipality_attributes(excel_df)
            /\ pc' = "loaded"
       ELSE /\ df_income' = df_income
            /\ pc' = "failed"
    /\ UNCHANGED << inputs, df_households, commune_ids, random_seeds, results,
                    runs, merged, written, output >>

(* Lines 62-80.  The household_income column does not exist yet: NoIncome.  *)
BuildHouseholds ==
    /\ pc = "loaded"
    /\ df_households' =
         LET t == HouseholdTable(df_population, df_homes)
         IN  [j \in 1..Len(t) |-> [household_income |-> NoIncome] @@ t[j]]
    /\ pc' = "built"
    /\ UNCHANGED << inputs, random, df_income, commune_ids, random_seeds, results,
                    runs, merged, written, output >>

(* Lines 82-230.                                                            *)
ClassifyHouseholds ==
    /\ pc = "built"
    /\ df_households' = Classified(df_households, df_population)
    /\ pc' = "classified"
    /\ UNCHANGED << inputs, random, df_income, commune_ids, random_seeds, results,
                    runs, merged, written, output >>

(* Lines 233-238: the task arguments; nothing has run yet.                  *)
DrawSeeds ==
    /\ pc = "classified"
    /\ LET ids == unique(CommuneColumn(df_households), {})
           seeds == randint_size(random, SeedRange, Len(ids), <<>>)
       IN  /\ commune_ids' = ids
           /\ random_seeds' = seeds.values
           /\ random' = seeds.state
           /\ results' = [k \in 1..Len(ids) |-> NoResult]
           /\ runs' = [k \in 1..Len(ids) |-> 0]
           /\ merged' = [k \in 1..Len(ids) |-> FALSE]
    /\ written' = [i \in 1..Len(df_households) |-> 0]
    /\ pc' = "sampling"
    /\ UNCHANGED << inputs, df_income, df_households, output >>

(* A worker executes task k, for the first time or again.  It reads the     *)
(* tables as they are.                                                      *)
RunTask(k) ==
    /\ pc = "sampling"
    /\ runs[k] <= MaxRetries
    /\ results' = [results EXCEPT ![k] =
            _sample_income(commune_ids[k], random_seeds[k], df_households, df_income)]
    /\ runs' = [runs EXCEPT ![k] = @ + 1]
    /\ UNCHANGED << pc, inputs, random, df_income, df_households, commune_ids,
                    random_seeds, merged, written, output >>

(* Lines 237-244: the loop takes the result of a task that has run.  A task *)
(* that raised makes the loop raise, and execute with it.                   *)
Merge(k) ==
    /\ pc = "sampling"
    /\ results[k].ran
    /\ ~merged[k]
    /\ IF results[k].ok
       THEN /\ df_households' = loc_assign(df_households, results[k].f, results[k].incomes)
            /\ written' = [i \in 1..Len(written) |->
                             IF results[k].f[i] THEN written[i] + 1 ELSE written[i]]
            /\ merged' = [merged EXCEPT ![k] = TRUE]
            /\ pc' = pc
       ELSE /\ pc' = "failed"
            /\ UNCHANGED << df_households, written, merged >>
    /\ UNCHANGED << inputs, random, df_income, commune_ids, random_seeds, results,
                    runs, output >>

(* Lines 246-249.                                                           *)
Return ==
    /\ pc = "sampling"
    /\ \A k \in 1..Len(merged) : merged[k]
    /\ Len(df_households) = Cardinality(GroupKeys(df_households))
    /\ output' = [returned |-> TRUE, table |-> Cleanup(df_households)]
    /\ pc' = "done"
    /\ UNCHANGED << inputs, random, df_income, df_households, commune_ids,
                    random_seeds, results, runs, merged, written >>

Next ==
    \/ LoadData
    \/ BuildHouseholds
    \/ ClassifyHouseholds
    \/ DrawSeeds
    \/ \E k \in 1..Len(commune_ids) : RunTask(k)
    \/ \E k \in 1..Len(commune_ids) : Merge(k)
    \/ Return

Spec == Init /\ [][Next]_vars

SpecClassification == InitClassification /\ [][Next]_vars

\* ------------------------------------------------------------ classification
HouseholdTypes ==
    {"Single_man", "Single_woman", "Couple_without_child", "Couple_with_child",
     "Single_parent", "complex_hh"}

IsClassified == pc \in {"classified", "sampling", "done"}

Persons(h) == Rows(df_population, h)

CandidateLabels(h) ==
    {k \in 1..5 : TypeColumns(df_population, h)[k] # ""}

\* C1: every household built by execute carries at most one of the five
\* candidate labels, and its household_type is one value of the six-label set
\* (never empty, never a concatenation of two labels).
C1_OneLabelPerHousehold ==
    IsClassified =>
        \A i \in 1..Len(df_households) :
            /\ Cardinality(CandidateLabels(df_households[i].household_id)) <= 1
            /\ df_households[i].household_type \in HouseholdTypes

\* C7: a household receives the candidate label Couple_with_child if and only
\* if exactly 2 of its persons have couple = true and each of the remaining
\* household_size - 2 persons (at least one) has age < 25 and couple = false.
C7_CoupleWithChildIff ==
    IsClassified =>
        \A i \in 1..Len(df_households) :
            LET h == df_households[i].household_id
                in_couple == SelectSeq(Persons(h), LAMBDA p : p.couple)
                others == SelectSeq(Persons(h), LAMBDA p : ~p.couple)
            IN  (TypeColumns(df_population, h)[4] = "Couple_with_child")
                  <=> /\ Len(in_couple) = 2
                      /\ Len(others) >= 1
                      /\ \A j \in 1..Len(others) : others[j].age < 25

\* C8: a household receives the candidate label Single_parent if and only if
\* its household_size is at least 2, none of its persons has couple = true, its
\* oldest person's age is in [25,60) and its second-oldest person's age is
\* below 25.
C8_SingleParentIff ==
    IsClassified =>
        \A i \in 1..Len(df_households) :
            LET h == df_households[i].household_id
                P == Persons(h)
            IN  (TypeColumns(df_population, h)[5] = "Single_parent")
                  <=> /\ Len(P) >= 2
                      /\ \A j \in 1..Len(P) : ~P[j].couple
                      /\ \E o \in 1..Len(P) :
                            /\ P[o].age >= 25
                            /\ P[o].age < 60
                            /\ \A j \in 1..Len(P) : j # o => P[j].age < 25

\* ------------------------------------------------------------------ sampling
RowsOf(f) == {i \in 1..Len(f) : f[i]}

HasRun(k) == results[k].ran /\ results[k].ok

\* C2: after execute completes, the output has exactly one row per
\* household_id of the input population (none duplicated, none omitted), and
\* every row carries a household_income written by exactly one task.
C2_OneRowPerHousehold ==
    pc = "done" =>
        /\ Len(output.table) = Cardinality(GroupKeys(df_population))
        /\ {output.table[i].household_id : i \in 1..Len(output.table)} = GroupKeys(df_population)
        /\ \A i \in 1..Len(output.table) :
              /\ written[i] = 1
              /\ output.table[i].household_income # NoIncome

C2_Witness ==
    /\ pc = "done"
    /\ Len(output.table) >= 2
    /\ Len(commune_ids) = 2
    /\ Len(df_population) > Len(output.table)

(* The first row of the income table for the commune of household row i.    *)
Q9(i) == IncomeRows(df_income, df_households[i].commune_id)[1].q[9]

(* q9 / 12 * 1.2 * consumption_units, in the scale of household_income.     *)
UpperBound(i) == FactorNum * Q9(i) * FracDen * df_households[i].consumption_units

HasIncome(i) == df_households[i].household_income # NoIncome

\* C3 (as stated): every household_income is at least 0 and strictly less than
\* q9/12 x 1.2 x consumption_units.
C3_StrictlyBelowBound ==
    \A i \in 1..Len(df_households) :
        HasIncome(i) =>
            /\ df_households[i].household_income >= 0
            /\ df_households[i].household_income < UpperBound(i)

\* C3 (amended): every household_income is at least 0 and at most
\* q9/12 x 1.2 x consumption_units, and strictly less than it when q9 > 0.
C3_WithinBound ==
    \A i \in 1..Len(df_households) :
        HasIncome(i) =>
            /\ df_households[i].household_income >= 0
            /\ df_households[i].household_income <= UpperBound(i)
            /\ Q9(i) > 0 => df_households[i].household_income < UpperBound(i)

\* A household of the top stratum (index 9) of a commune with q9 > 0.
C3_Witness ==
    \E k \in 1..Len(results) :
        /\ HasRun(k)
        /\ merged[k]
        /\ \E i \in RowsOf(results[k].f) :
              /\ results[k].indices[Rank(results[k].f, i)] = NumStrata - 1
              /\ Q9(i) > 0
              /\ HasIncome(i)

(* execute with the tasks run one after the other, each once.               *)
RECURSIVE InOrder(_, _, _, _, _)
InOrder(table, income, ids, seeds, k) ==
    IF k > Len(ids) THEN table
    ELSE LET r == _sample_income(ids[k], seeds[k], table, income)
         IN  InOrder(loc_assign(table, r.f, r.incomes), income, ids, seeds, k + 1)

ExpectedSeeds(n) == randint_size(RandomState(random_seed), SeedRange, n, <<>>).values

ExpectedOutput ==
    LET t == HouseholdTable(df_population, df_homes)
        base == Classified([j \in 1..Len(t) |-> [household_income |-> NoIncome] @@ t[j]],
                           df_population)
        ids == unique(CommuneColumn(base), {})
    IN  Cleanup(InOrder(base, municipality_attributes(excel_df), ids,
                        ExpectedSeeds(Len(ids)), 1))

\* C4: the seeds are the first draws of the master stream, all taken before
\* any result is merged, and the income table returned is the one of the
\* in-order execution, whatever the order in which the tasks ran, ran again
\* and were merged.
C4_Reproducible ==
    /\ pc \in {"sampling", "done"} => random_seeds = ExpectedSeeds(Len(commune_ids))
    /\ pc = "done" => output = [returned |-> TRUE, table |-> ExpectedOutput]

C4_Witness ==
    /\ pc = "done"
    /\ Len(commune_ids) = 2
    /\ Len(output.table) >= 2
    /\ output.table[1].household_income # output.table[2].household_income

InTable(commune_id) == \E j \in 1..Len(df_income) : df_income[j].commune_id = commune_id

NoIncomeRow(i) == ~InTable(df_households[i].commune_id)

\* C5: if a municipality with a household has no row in the income table, its
\* task fails, execute never completes and returns no income table.
C5_MissingRowAborts ==
    (pc # "start" /\ \E i \in 1..Len(df_households) : NoIncomeRow(i)) =>
        /\ output = NoTable
        /\ pc # "done"
        /\ \A k \in 1..Len(results) :
              (results[k].ran /\ ~InTable(commune_ids[k])) => ~results[k].ok

\* The run failed on the missing row after another commune's incomes had
\* been written to the household table.
C5_Witness ==
    /\ pc = "failed"
    /\ output = NoTable
    /\ \E i \in 1..Len(df_households) : NoIncomeRow(i)
    /\ \E i \in 1..Len(df_households) : HasIncome(i)

(* The row of the income table of the given attribute and modality.         *)
AttributeRows(commune_id, attribute, modality) ==
    SelectSeq(df_income, LAMBDA r : /\ r.commune_id = commune_id
                                    /\ r.attribute = attribute
                                    /\ r.modality = modality)

\* C6: the decile cutoffs a task uses for a household are those of the row of
\* its municipality whose attribute is household_size and whose modality is
\* the household's size bucket.
C6_HouseholdSizeRow ==
    \A k \in 1..Len(results) :
        HasRun(k) =>
            \A i \in RowsOf(results[k].f) :
                LET rows == AttributeRows(commune_ids[k], "household_size",
                                          df_households[i].household_size)
                IN  /\ rows # <<>>
                    /\ results[k].centiles = BoundaryPoints(rows[1].q)

\* C9: a task with n selected households takes its n stratum indices first,
\* in household order, and then its n fractions, in the same order, from the
\* generator seeded with its seed; household j's income is
\* boundary[index] + fraction x (boundary[index + 1] - boundary[index]) over
\* the 11 boundary points [0, q1/12, ..., q9/12, 1.2 x max(q/12)].
C9_TwoPhases ==
    \A k \in 1..Len(results) :
        HasRun(k) =>
            LET r == results[k]
                n == Cardinality(RowsOf(r.f))
                q == IncomeRows(df_income, commune_ids[k])[1].q
                boundary == [b \in 1..11 |->
                               IF b = 1 THEN 0
                               ELSE IF b <= 10 THEN 10 * q[b - 1]
                               ELSE 12 * SeqMax(q)]
            IN  /\ Len(r.log) = 2 * n
                /\ Len(r.incomes) = n
                /\ n > 0 => r.log[1].before = RandomState(random_seeds[k])
                /\ \A j \in 1..(2 * n - 1) : r.log[j + 1].before = r.log[j].after
                /\ \A j \in 1..n :
                      LET index == randint(r.log[j].before, NumStrata).value
                          fraction == random_sample(r.log[n + j].before).value
                      IN  /\ r.log[j].kind = "randint" /\ r.log[j].row = j
                          /\ r.log[n + j].kind = "random_sample" /\ r.log[n + j].row = j
                          /\ r.incomes[j] =
                               FracDen * boundary[index + 1]
                                 + fraction * (boundary[index + 2] - boundary[index + 1])

\* A task over two households whose indices differ and whose fractions differ.
C9_Witness ==
    \E k \in 1..Len(results) :
        /\ HasRun(k)
        /\ Len(results[k].incomes) >= 2
        /\ results[k].indices[1] # results[k].indices[2]
        /\ results[k].fractions[1] # results[k].fractions[2]
        /\ results[k].centiles[11] > 0

\* C10: a task leaves the household table and the income table as they are,
\* and whenever it is executed again, also after results were merged, it
\* returns what it returned before.
C10_TaskIsPure ==
    [][ /\ \A k \in 1..Len(results) : results[k].ran => results'[k] = results[k]
        /\ (runs # <<>> /\ runs' # runs) =>
              /\ df_households' = df_households
              /\ df_income' = df_income ]_vars

\* A task executed more than once whose result was merged, as was another's.
C10_Witness ==
    \E k \in 1..Len(results) :
        /\ HasRun(k)
        /\ merged[k]
        /\ runs[k] >= 2
        /\ \E j \in 1..Len(results) : j # k /\ merged[j]

====
